---------------------------- MODULE Spec2Model ----------------------------
(***************************************************************************)
(* A model of extract_schema.py: the response sanitizer at the end of      *)
(* call_deepseek_api (lines 276-304) and the two schema extractors         *)
(* extract_postgres_schema / extract_hive_schema (lines 92-187).           *)
(*                                                                         *)
(* Text is a sequence of one-character strings, so that strip, startswith, *)
(* endswith, "in", slicing, split and join are computed as Python computes *)
(* them.  The grave accent cannot be written inside a TLA+ string (the     *)
(* lexer reads it as an opening quote), so the atom BT stands for it; the   *)
(* four CJK characters of line 294 are atoms as well.                      *)
(***************************************************************************)
EXTENDS Integers, Sequences, FiniteSets, TLC

VARIABLES
    \* ---- call_deepseek_api, lines 276-304 ----
    content,        \* response.json()["choices"][0]["message"]["content"]
    result,         \* the local `result`
    lines,          \* the local `lines`
    pos,            \* index of the next element of `lines` the for loop visits
    sql_lines,      \* the local `sql_lines`
    in_sql_block,   \* the local `in_sql_block`
    returned,       \* the value the call returned
    pc,             \* position inside the call
    \* ---- what has been observed of the calls so far ----
    run,            \* number of the call in progress (1 = the first)
    kind,           \* kind[r]: "first", "again" (fed its own output) or "inner"
    outs,           \* outs[r]: the text call r returned
    block_at,       \* block_at[i]: in_sql_block when the loop reached lines[i]
    opener,         \* how the first content was built: opener \o inner \o closer
    inner,
    closer,
    \* ---- extract_schema, lines 81-187 ----
    db_type,        \* config['type']
    tables,         \* the rows of the table listing, in the order fetched
    tpos,           \* index of the next table the for loop visits
    schema,         \* the local `schema`
    described,      \* described[i]: the column rows fetched for table i
    constrained,    \* constrained[i]: the constraint rows fetched for table i
    listed,         \* listed[i]: what SHOW PARTITIONS gave for table i
    epc             \* position inside extract_schema

svars == <<content, result, lines, pos, sql_lines, in_sql_block, returned, pc,
           run, kind, outs, block_at, opener, inner, closer>>
evars == <<db_type, tables, tpos, schema, described, constrained, listed, epc>>
vars  == <<svars, evars>>

---------------------------------------------------------------------------
(* Characters and the str methods the sanitizer calls.                     *)

BT == "BACKTICK"
NL == "\n"

\* The four characters of the two markers of line 294, written as atoms:
\* U+89E3 U+91CA ("explanation") and U+8BF4 U+660E ("description").
JIE  == "U+89E3"
SHI  == "U+91CA"
SHUO == "U+8BF4"
MING == "U+660E"

\* a part of what str.strip() removes when called without arguments
Whitespace == {" ", NL, "\t", "\r"}

RECURSIVE lstrip(_)
lstrip(s) == IF s # <<>> /\ Head(s) \in Whitespace THEN lstrip(Tail(s)) ELSE s

RECURSIVE rstrip(_)
rstrip(s) ==
    IF s # <<>> /\ s[Len(s)] \in Whitespace
    THEN rstrip(SubSeq(s, 1, Len(s) - 1))
    ELSE s

\* s.strip()
strip(s) == rstrip(lstrip(s))

\* s.startswith(p)
startswith(s, p) == Len(s) >= Len(p) /\ SubSeq(s, 1, Len(p)) = p

\* s.endswith(p)
endswith(s, p) == Len(s) >= Len(p) /\ SubSeq(s, Len(s) - Len(p) + 1, Len(s)) = p

\* p in s
contains(s, p) ==
    \E i \in 1..(Len(s) - Len(p) + 1) : SubSeq(s, i, i + Len(p) - 1) = p

\* s[a:-b] for a >= 0 and b > 0; empty when the bounds cross
slice(s, a, b) == IF a + 1 <= Len(s) - b THEN SubSeq(s, a + 1, Len(s) - b) ELSE <<>>

\* s.split("\n"): always at least one element
RECURSIVE split(_)
split(s) ==
    IF \A i \in 1..Len(s) : s[i] # NL
    THEN <<s>>
    ELSE LET i == CHOOSE k \in 1..Len(s) :
                      s[k] = NL /\ \A j \in 1..(k - 1) : s[j] # NL
         IN  <<SubSeq(s, 1, i - 1)>> \o split(SubSeq(s, i + 1, Len(s)))

\* a join that ends every line, the last one too, with a newline
RECURSIVE join_terminated(_)
join_terminated(ls) ==
    IF ls = <<>> THEN <<>> ELSE ls[1] \o <<NL>> \o join_terminated(Tail(ls))

\* "\n".join(ls)
RECURSIVE join(_)
join(ls) ==
    IF ls = <<>> THEN <<>>
    ELSE IF Len(ls) = 1 THEN ls[1]
    ELSE ls[1] \o <<NL>> \o join(Tail(ls))

FenceSql == <<BT, BT, BT, "s", "q", "l">>
Fence    == <<BT, BT, BT>>

\* lines 280-283: the fence test and the slice taken
StripFence(r) ==
    IF startswith(r, FenceSql) /\ endswith(r, Fence) THEN strip(slice(r, 6, 3))
    ELSE IF startswith(r, Fence) /\ endswith(r, Fence) THEN strip(slice(r, 3, 3))
    ELSE r

\* line 293 with only its two startswith tests
is_sql_comment_prefix_only(line_stripped) ==
    \/ startswith(line_stripped, <<"-", "-">>)
    \/ startswith(line_stripped, <<"/", "*">>)

\* line 293
is_sql_comment(line_stripped) ==
    \/ startswith(line_stripped, <<"-", "-">>)
    \/ startswith(line_stripped, <<"/", "*">>)
    \/ endswith(line_stripped, <<"*", "/">>)
    \/ contains(line_stripped, <<"/", "*">>)

\* line 294 without its test for "#"
is_sql_code_keeps_headings(line_stripped) ==
    /\ Len(line_stripped) > 0
    /\ ~(\/ startswith(line_stripped, <<"S", "Q", "L">>)
         \/ contains(line_stripped, <<JIE, SHI>>)
         \/ contains(line_stripped, <<SHUO, MING>>))

\* line 294
is_sql_code(line_stripped) ==
    /\ Len(line_stripped) > 0
    /\ ~startswith(line_stripped, <<"#">>)
    /\ ~(\/ startswith(line_stripped, <<"S", "Q", "L">>)
         \/ contains(line_stripped, <<JIE, SHI>>)
         \/ contains(line_stripped, <<SHUO, MING>>))

\* lines 297-302: whether the loop body appends `line`
Appends(line, blk) ==
    LET line_stripped == strip(line)
    IN  IF is_sql_code(line_stripped) \/ is_sql_comment(line_stripped) THEN TRUE
        ELSE blk /\ line_stripped = <<>>

\* a loop body in which a discarded line ends the SQL block
BlockAfter_reset(line, blk) ==
    LET line_stripped == strip(line)
    IN  IF is_sql_code(line_stripped) \/ is_sql_comment(line_stripped) THEN TRUE
        ELSE blk /\ line_stripped = <<>>

\* lines 297-302: in_sql_block after the loop body ran on `line`
BlockAfter(line, blk) ==
    LET line_stripped == strip(line)
    IN  IF is_sql_code(line_stripped) \/ is_sql_comment(line_stripped) THEN TRUE
        ELSE blk

---------------------------------------------------------------------------
(* The replies the model is run on.                                        *)

MaxCtx == 3
MaxRuns == 3

\* lines that decide how whole replies behave
CoreLines ==
    { <<>>,                                   \* blank
      <<" ", "a">>,                           \* indented code
      <<"#", "a">> }                          \* markdown heading

\* lines that exercise each clause of the classification
ProbeLines ==
    { <<" ">>,                                \* blank after trimming only
      <<"a">>,
      <<"-", "-", "a">>,
      <<"/", "*", "a">>,
      <<"a", "*", "/">>,
      <<"#", "/", "*">>,                      \* heading, but holds "/*"
      <<"S", "Q", "L", ":">>,
      <<"S", "Q", "L", "*", "/">>,            \* "SQL" prefix, but ends "*/"
      <<"a", "S", "Q", "L">>,                 \* "SQL" not at the start
      <<JIE, SHI>>,
      <<"a", SHUO, MING>>,
      <<"-", "-", JIE, SHI>>,                 \* marker inside a comment
      <<"a", "\t">> }

\* the text whose lines are ls
RECURSIVE Reply(_)
Reply(ls) ==
    IF ls = <<>> THEN <<>>
    ELSE IF Len(ls) = 1 THEN ls[1]
    ELSE ls[1] \o <<NL>> \o Reply(Tail(ls))

RECURSIVE SeqsOfLen(_, _)
SeqsOfLen(S, n) ==
    IF n = 0 THEN {<<>>}
    ELSE {Append(q, x) : q \in SeqsOfLen(S, n - 1), x \in S}

SeqsUpTo(S, n) == UNION {SeqsOfLen(S, k) : k \in 0..n}

\* a probe line placed anywhere among up to MaxCtx core lines, or none
Bodies ==
    SeqsUpTo(CoreLines, MaxCtx + 1) \cup
    UNION { { SubSeq(c, 1, i) \o <<p>> \o SubSeq(c, i + 1, Len(c)) :
                i \in 0..Len(c), p \in ProbeLines } :
            c \in SeqsUpTo(CoreLines, MaxCtx) }

\* the ways a model wraps its answer: <<opening text, closing text>>
NoWrap == <<<<>>, <<>>>>
LineWraps ==
    { <<Fence \o <<NL>>, <<NL>> \o Fence>>,
      <<FenceSql \o <<NL>>, <<NL>> \o Fence>>,
      <<Fence \o <<"h", "i", "v", "e", NL>>, <<NL>> \o Fence>> }
InlineWrap == <<Fence, Fence>>
Wraps == {NoWrap, InlineWrap} \cup LineWraps

\* the reply of the scenario in section 8 of the specification
ScenarioLines ==
    << <<"H", "e", "r", "e", " ", "i", "s", " ", "t", "h", "e", " ", "S", "Q", "L", ":">>,
       <<BT, BT, BT, "s", "q", "l">>,
       <<"-", "-", " ", "g", "e", "t", " ", "a", "c", "t", "i", "v", "e", " ",
         "u", "s", "e", "r", "s">>,
       <<"S", "E", "L", "E", "C", "T", " ", "*", " ", "F", "R", "O", "M", " ",
         "u", "s", "e", "r", "s", " ", "W", "H", "E", "R", "E", " ",
         "a", "c", "t", "i", "v", "e", " ", "=", " ", "t", "r", "u", "e", ";">>,
       <<>>,
       <<BT, BT, BT>> >>
ScenarioReply == Reply(ScenarioLines)

---------------------------------------------------------------------------
(* call_deepseek_api from line 276 on: one action per statement, one per   *)
(* iteration of the for loop.                                              *)

\* values of the locals before the statements that bind them have run
Unbound == <<>>

EnterCall(text) ==
    /\ content' = text
    /\ result' = Unbound
    /\ lines' = Unbound
    /\ pos' = 1
    /\ sql_lines' = Unbound
    /\ in_sql_block' = FALSE
    /\ block_at' = <<>>
    /\ returned' = Unbound
    /\ pc' = "strip"

\* line 276
StripContent ==
    /\ pc = "strip"
    /\ result' = strip(content)
    /\ pc' = "fence"
    /\ UNCHANGED <<content, lines, pos, sql_lines, in_sql_block, returned,
                   run, kind, outs, block_at, opener, inner, closer>>
    /\ UNCHANGED evars

\* lines 280-283
StripFenceStep ==
    /\ pc = "fence"
    /\ result' = StripFence(result)
    /\ pc' = "split"
    /\ UNCHANGED <<content, lines, pos, sql_lines, in_sql_block, returned,
                   run, kind, outs, block_at, opener, inner, closer>>
    /\ UNCHANGED evars

\* lines 286-288
SplitLines ==
    /\ pc = "split"
    /\ lines' = split(result)
    /\ sql_lines' = <<>>
    /\ in_sql_block' = FALSE
    /\ pos' = 1
    /\ pc' = "loop"
    /\ UNCHANGED <<content, result, returned, run, kind, outs, block_at,
                   opener, inner, closer>>
    /\ UNCHANGED evars

\* lines 290-302, one iteration
ProcessLine ==
    /\ pc = "loop"
    /\ pos <= Len(lines)
    /\ LET line == lines[pos]
       IN  /\ sql_lines' = IF Appends(line, in_sql_block)
                           THEN Append(sql_lines, line)
                           ELSE sql_lines
           /\ in_sql_block' = BlockAfter(line, in_sql_block)
    /\ block_at' = Append(block_at, in_sql_block)
    /\ pos' = pos + 1
    /\ UNCHANGED <<content, result, lines, returned, pc, run, kind, outs,
                   opener, inner, closer>>
    /\ UNCHANGED evars

\* line 304
Return ==
    /\ pc = "loop"
    /\ pos > Len(lines)
    /\ returned' = join(sql_lines)
    /\ outs' = Append(outs, join(sql_lines))
    /\ pc' = "done"
    /\ UNCHANGED <<content, result, lines, pos, sql_lines, in_sql_block,
                   run, kind, block_at, opener, inner, closer>>
    /\ UNCHANGED evars

\* the sanitizer is applied again, to the text it has just returned
SanitizeAgain ==
    /\ pc = "done"
    /\ run < MaxRuns
    /\ opener = <<>> /\ closer = <<>>
    /\ kind[run] # "inner"
    /\ EnterCall(returned)
    /\ run' = run + 1
    /\ kind' = Append(kind, "again")
    /\ UNCHANGED <<outs, opener, inner, closer>>
    /\ UNCHANGED evars

\* the sanitizer is applied to what the fence of the first reply enclosed
SanitizeInner ==
    /\ pc = "done"
    /\ run = 1
    /\ <<opener, closer>> \in LineWraps
    /\ EnterCall(inner)
    /\ run' = run + 1
    /\ kind' = Append(kind, "inner")
    /\ UNCHANGED <<outs, opener, inner, closer>>
    /\ UNCHANGED evars

---------------------------------------------------------------------------
(* extract_schema and the two extractors.  What the cursor returns is an   *)
(* input: each action draws it, and described / constrained / listed keep  *)
(* what was drawn so that the schema can be compared with it.              *)

MaxRows == 3

None == "<None>"

TableNames == {"t1", "t2"}

\* conn.database, line 156
Database == "default"

\* sequences over S without repetition
Injective(S) ==
    {q \in SeqsUpTo(S, Cardinality(S)) :
        \A a, b \in 1..Len(q) : a # b => q[a] # q[b]}

\* SHOW TABLES lists every table of the database once
HiveTableLists == Injective(TableNames)

\* DESCRIBE rows: name, type and an optional comment, or a shorter row
HiveRows ==
    { <<>>,
      <<"x">>,
      <<"id", "int">>,
      <<"name", "string", "a name">> }

\* SHOW PARTITIONS either raises or gives rows of one field
PartitionResults ==
    { [ok |-> FALSE, rows |-> <<>>],
      [ok |-> TRUE, rows |-> <<>>],
      [ok |-> TRUE, rows |-> << <<"dt=1">> >>],
      [ok |-> TRUE, rows |-> << <<"dt=1">>, <<"dt=2">> >>] }

\* information_schema.tables: (table_name, table_schema), each pair once
PgTableRows == { <<"t1", "public">>, <<"t1", "app">>, <<"t2", "public">> }
PgTableLists == Injective(PgTableRows)

\* information_schema.columns: a column name occurs once in a table
PgColumnRows ==
    { <<"id", "integer", "NO", None>>,
      <<"name", "text", "YES", "'x'">> }
PgColumnLists == Injective(PgColumnRows)

\* information_schema.table_constraints
PgConstraintLists ==
    { <<>>,
      << <<"pk", "PRIMARY KEY">> >>,
      << <<"fk", "FOREIGN KEY">>, <<"pk", "PRIMARY KEY">> >> }

\* lines 120-125
PgColumn(col) ==
    [name |-> col[1], type |-> col[2], nullable |-> (col[3] = "YES"),
     default |-> col[4]]

\* lines 119-125
PgColumns(rows) == [k \in 1..Len(rows) |-> PgColumn(rows[k])]

\* lines 134-138
PgConstraints(rows) ==
    [k \in 1..Len(rows) |-> [name |-> rows[k][1], type |-> rows[k][2]]]

\* lines 104-138
PgTableInfo(table, cols, cons) ==
    [name |-> table[1], schema |-> table[2],
     columns |-> PgColumns(cols), constraints |-> PgConstraints(cons)]

\* lines 165-173
HiveColumn(col) ==
    [name |-> col[1], type |-> col[2], nullable |-> TRUE,
     comment |-> IF Len(col) > 2 THEN col[3] ELSE None]

\* lines 162-173 with the test of line 164 asking for a comment field too
RECURSIVE HiveColumns_strict(_)
HiveColumns_strict(rows) ==
    IF rows = <<>> THEN <<>>
    ELSE LET col == Head(rows)
         IN  (IF Len(col) > 2 THEN <<HiveColumn(col)>> ELSE <<>>)
                 \o HiveColumns_strict(Tail(rows))

\* lines 162-173
RECURSIVE HiveColumns(_)
HiveColumns(rows) ==
    IF rows = <<>> THEN <<>>
    ELSE LET col == Head(rows)
         IN  (IF Len(col) >= 2 THEN <<HiveColumn(col)>> ELSE <<>>)
                 \o HiveColumns(Tail(rows))

\* lines 176-183: table_info after the try statement
WithPartitions(table_info, res) ==
    IF res.ok /\ res.rows # <<>>
    THEN [f \in DOMAIN table_info \cup {"partitions"} |->
             IF f = "partitions"
             THEN [k \in 1..Len(res.rows) |-> res.rows[k][1]]
             ELSE table_info[f]]
    ELSE table_info

\* lines 154-183
HiveTableInfo(table_name, rows, res) ==
    WithPartitions([name |-> table_name, schema |-> Database,
                    columns |-> HiveColumns(rows)], res)

\* the table put in front of the ones already there
AddTable_front(s, table_info) == [s EXCEPT !.tables = <<table_info>> \o @]

\* lines 140 and 185
AddTable(s, table_info) == [s EXCEPT !.tables = Append(@, table_info)]

\* the column rows fetched so far, over all tables
RowsFetched(d) ==
    LET RECURSIVE Sum(_)
        Sum(q) == IF q = <<>> THEN 0 ELSE Len(Head(q)) + Sum(Tail(q))
    IN  Sum(d)

\* lines 83-90
Dispatch ==
    /\ epc = "start"
    /\ epc' = IF db_type = "postgresql" THEN "pg_tables"
              ELSE IF db_type = "hive" THEN "hive_tables"
              ELSE "raised"
    /\ UNCHANGED <<db_type, tables, tpos, schema, described, constrained, listed>>
    /\ UNCHANGED svars

\* lines 94-103
PgListTables ==
    /\ epc = "pg_tables"
    /\ \E ts \in PgTableLists : tables' = ts
    /\ schema' = [tables |-> <<>>, db_type |-> "postgresql"]
    /\ tpos' = 1
    /\ epc' = "pg_loop"
    /\ UNCHANGED <<db_type, described, constrained, listed>>
    /\ UNCHANGED svars

\* lines 103-140, one iteration
PgTable ==
    /\ epc = "pg_loop"
    /\ tpos <= Len(tables)
    /\ \E cols \in PgColumnLists, cons \in PgConstraintLists :
          /\ schema' = AddTable(schema, PgTableInfo(tables[tpos], cols, cons))
          /\ described' = Append(described, cols)
          /\ constrained' = Append(constrained, cons)
    /\ tpos' = tpos + 1
    /\ UNCHANGED <<db_type, tables, listed, epc>>
    /\ UNCHANGED svars

\* line 142
PgReturn ==
    /\ epc = "pg_loop"
    /\ tpos > Len(tables)
    /\ epc' = "done"
    /\ UNCHANGED <<db_type, tables, tpos, schema, described, constrained, listed>>
    /\ UNCHANGED svars

\* lines 146-151
HiveListTables ==
    /\ epc = "hive_tables"
    /\ \E ts \in HiveTableLists : tables' = ts
    /\ schema' = [tables |-> <<>>, db_type |-> "hive"]
    /\ tpos' = 1
    /\ epc' = "hive_loop"
    /\ UNCHANGED <<db_type, described, constrained, listed>>
    /\ UNCHANGED svars

\* one iteration without the try of lines 176-183: a failing SHOW PARTITIONS
\* propagates, and the table is never appended
HiveTable_uncaught ==
    /\ epc = "hive_loop"
    /\ tpos <= Len(tables)
    /\ \E rows \in SeqsUpTo(HiveRows, MaxRows - RowsFetched(described)),
          res \in PartitionResults :
          /\ described' = Append(described, rows)
          /\ listed' = Append(listed, res)
          /\ IF res.ok
             THEN /\ schema' = AddTable(schema, HiveTableInfo(tables[tpos], rows, res))
                  /\ tpos' = tpos + 1
                  /\ epc' = epc
             ELSE /\ epc' = "raised"
                  /\ UNCHANGED <<schema, tpos>>
    /\ UNCHANGED <<db_type, tables, constrained>>
    /\ UNCHANGED svars

\* lines 153-185, one iteration
HiveTable ==
    /\ epc = "hive_loop"
    /\ tpos <= Len(tables)
    /\ \E rows \in SeqsUpTo(HiveRows, MaxRows - RowsFetched(described)),
          res \in PartitionResults :
          /\ schema' = AddTable(schema, HiveTableInfo(tables[tpos], rows, res))
          /\ described' = Append(described, rows)
          /\ listed' = Append(listed, res)
    /\ tpos' = tpos + 1
    /\ UNCHANGED <<db_type, tables, constrained, epc>>
    /\ UNCHANGED svars

\* line 187
HiveReturn ==
    /\ epc = "hive_loop"
    /\ tpos > Len(tables)
    /\ epc' = "done"
    /\ UNCHANGED <<db_type, tables, tpos, schema, described, constrained, listed>>
    /\ UNCHANGED svars

\* cur.execute raises outside the try of lines 176-183 (the table listing,
\* DESCRIBE, a catalog query): nothing catches it, no schema is returned
ExecuteRaises ==
    /\ epc \in {"pg_tables", "pg_loop", "hive_tables", "hive_loop"}
    /\ epc \in {"pg_loop", "hive_loop"} => tpos <= Len(tables)
    /\ epc' = "raised"
    /\ UNCHANGED <<db_type, tables, tpos, schema, described, constrained, listed>>
    /\ UNCHANGED svars

SIdle ==
    /\ content = <<>>
    /\ result = Unbound
    /\ lines = Unbound
    /\ pos = 1
    /\ sql_lines = Unbound
    /\ in_sql_block = FALSE
    /\ block_at = <<>>
    /\ returned = Unbound
    /\ pc = "idle"
    /\ run = 0
    /\ kind = <<>>
    /\ outs = <<>>
    /\ opener = <<>>
    /\ inner = <<>>
    /\ closer = <<>>

ExtractInit ==
    /\ db_type \in {"postgresql", "hive", "mysql"}
    /\ tables = <<>>
    /\ tpos = 1
    /\ schema = [tables |-> <<>>, db_type |-> "none"]
    /\ described = <<>>
    /\ constrained = <<>>
    /\ listed = <<>>
    /\ epc = "start"
    /\ SIdle

ExtractNext ==
    \/ Dispatch
    \/ PgListTables
    \/ PgTable
    \/ PgReturn
    \/ HiveListTables
    \/ HiveTable
    \/ HiveReturn
    \/ ExecuteRaises

ExtractSpec == ExtractInit /\ [][ExtractNext]_vars

EIdle ==
    /\ db_type = "none"
    /\ tables = <<>>
    /\ tpos = 1
    /\ schema = [tables |-> <<>>, db_type |-> "none"]
    /\ described = <<>>
    /\ constrained = <<>>
    /\ listed = <<>>
    /\ epc = "idle"

SInitWith(o, c, x) ==
    /\ opener = o
    /\ closer = c
    /\ inner = x
    /\ content = o \o x \o c
    /\ result = Unbound
    /\ lines = Unbound
    /\ pos = 1
    /\ sql_lines = Unbound
    /\ in_sql_block = FALSE
    /\ block_at = <<>>
    /\ returned = Unbound
    /\ pc = "strip"
    /\ run = 1
    /\ kind = <<"first">>
    /\ outs = <<>>

SanitizeInit ==
    /\ \/ \E w \in Wraps, b \in Bodies : SInitWith(w[1], w[2], Reply(b))
       \/ SInitWith(<<>>, <<>>, ScenarioReply)
    /\ EIdle

SanitizeNext ==
    \/ StripContent
    \/ StripFenceStep
    \/ SplitLines
    \/ ProcessLine
    \/ Return
    \/ SanitizeAgain
    \/ SanitizeInner

SanitizeSpec == SanitizeInit /\ [][SanitizeNext]_vars

---------------------------------------------------------------------------
(* The classification as the specification words it, and helpers for the   *)
(* statements below.                                                       *)

SpecComment(t) ==
    \/ startswith(t, <<"-", "-">>)
    \/ startswith(t, <<"/", "*">>)
    \/ endswith(t, <<"*", "/">>)
    \/ contains(t, <<"/", "*">>)

SpecMeta(t) ==
    \/ startswith(t, <<"S", "Q", "L">>)
    \/ contains(t, <<JIE, SHI>>)
    \/ contains(t, <<SHUO, MING>>)

SpecCode(t) == t # <<>> /\ ~startswith(t, <<"#">>) /\ ~SpecMeta(t)

\* the line is an SQL-comment line or an SQL-code line
Qualifies(line) == SpecComment(strip(line)) \/ SpecCode(strip(line))

Blank(line) == strip(line) = <<>>

\* the elements of q at the indices in I, in increasing order of index
Pick(q, I) ==
    [j \in 1..Cardinality(I) |->
        q[CHOOSE k \in I : Cardinality({m \in I : m < k}) = j - 1]]

InCall == pc \in {"loop", "done"}

---------------------------------------------------------------------------
(* C1: sanitizing the six-line scenario reply (prose line, ```sql, the     *)
(* comment, the SELECT, a blank line, ```) yields exactly the comment and  *)
(* the SELECT, followed at most by the preserved blank line; the prose     *)
(* line and both fence lines are absent.                                   *)
C1_ScenarioYieldsSqlOnly ==
    (pc = "done" /\ run = 1 /\ content = ScenarioReply) =>
        \/ returned = Reply(<<ScenarioLines[3], ScenarioLines[4]>>)
        \/ returned = Reply(<<ScenarioLines[3], ScenarioLines[4], <<>>>>)

(* C2: for fence-free inner text C and every opening fence line (bare,     *)
(* ```sql, or ``` with another language tag), sanitizing                   *)
(* opening line + C + closing ``` returns what sanitizing C returns.       *)
C2_FencedEqualsInner ==
    (pc = "done" /\ run = 2 /\ kind[2] = "inner" /\ ~contains(inner, Fence)) =>
        returned = outs[1]

(* C3, as claimed: for fence-free x, sanitize(sanitize(x)) = sanitize(x).  *)
C3_Idempotent ==
    (pc = "done" /\ run = 2 /\ kind[2] = "again" /\ ~contains(inner, Fence)) =>
        returned = outs[1]

(* C3, amended: for fence-free x, sanitizing an output of sanitize returns *)
(* that output with its leading and trailing whitespace trimmed, and from  *)
(* the second application on sanitizing changes nothing.                   *)
C3_IdempotentUpToTrim ==
    (pc = "done" /\ run >= 2 /\ kind[run] = "again" /\ ~contains(inner, Fence)) =>
        /\ returned = strip(outs[run - 1])
        /\ run >= 3 => returned = outs[run - 1]

C3_Witness ==
    /\ pc = "done" /\ run = 2 /\ kind[2] = "again" /\ ~contains(inner, Fence)
    /\ outs[1] # <<>>
    /\ Head(outs[1]) = " "
    /\ outs[1][Len(outs[1])] = NL
    /\ returned # outs[1]

(* C4: going through the lines of the trimmed, fence-stripped reply with   *)
(* in_sql_block initially false, a line is kept iff (a) its trimmed form   *)
(* starts with "--" or "/*", ends with "*/" or contains "/*", or (b) it is *)
(* non-empty, starts neither with "#" nor with "SQL" and contains neither  *)
(* marker, or (c) it is empty and in_sql_block is true at that line; the   *)
(* output is the kept lines, untrimmed, in order, joined by newlines.      *)
C4_Keeps(line, blk) ==
    \/ SpecComment(strip(line))
    \/ SpecCode(strip(line))
    \/ (strip(line) = <<>> /\ blk)

\* C4: what has been kept so far is what clauses (a), (b), (c) keep
C4_Classification ==
    InCall =>
        /\ join(lines) = result
        /\ Len(block_at) = pos - 1
        /\ pos > 1 => ~block_at[1]
        /\ sql_lines =
              Pick(lines, {i \in 1..(pos - 1) : C4_Keeps(lines[i], block_at[i])})
        /\ pc = "done" => pos = Len(lines) + 1 /\ returned = join(sql_lines)

C4_Witness ==
    /\ pc = "done"
    /\ \E i \in 1..Len(lines) : Blank(lines[i]) /\ block_at[i]
    /\ \E i \in 1..Len(lines) :
          SpecComment(strip(lines[i])) /\ ~SpecCode(strip(lines[i]))
    /\ \E i \in 1..Len(lines) : ~Blank(lines[i]) /\ ~Qualifies(lines[i])
    /\ Len(sql_lines) = 2

(* C5, as claimed: whenever no line of the reply is an SQL-comment or      *)
(* SQL-code line, the returned string is empty.                            *)
C5_EmptyWhenNoReplyLineQualifies ==
    (pc = "done" /\ run = 1
        /\ \A i \in 1..Len(split(content)) : ~Qualifies(split(content)[i])) =>
        returned = <<>>

(* C5, amended: the call always runs to its return statement, and whenever *)
(* no line of the reply as the classifier sees it (after the whole-text    *)
(* trim and the fence stripping) is an SQL-comment or SQL-code line, the   *)
(* returned string is empty, however many blank, "#" or meta lines it has. *)
C5_EmptyWhenNothingQualifies ==
    /\ pc \in {"strip", "fence", "split", "loop", "done"}
    /\ pc = "loop" => (Len(lines) >= 1 /\ ENABLED (ProcessLine \/ Return))
    /\ (pc = "done" /\ \A i \in 1..Len(lines) : ~Qualifies(lines[i])) =>
          returned = <<>>

C5_Witness ==
    /\ pc = "done" /\ run = 1
    /\ returned = <<>>
    /\ Len(lines) = 4
    /\ \E i \in 1..Len(lines) : Blank(lines[i])
    /\ \E i \in 1..Len(lines) : startswith(strip(lines[i]), <<"#">>)
    /\ \E i \in 1..Len(lines) : SpecMeta(strip(lines[i]))

(* C10: within one call in_sql_block is false up to the first kept         *)
(* SQL-comment or SQL-code line and true from then on, and no line resets  *)
(* it; so a non-empty output never starts with a blank line, and every     *)
(* blank line after the first kept line is output, also when discarded     *)
(* lines lie between it and the nearest SQL line.                          *)
C10_State ==
    InCall =>
        /\ in_sql_block <=> \E j \in 1..(pos - 1) : Qualifies(lines[j])
        /\ \A i \in 1..Len(block_at) :
              block_at[i] <=> \E j \in 1..(i - 1) : Qualifies(lines[j])
        /\ sql_lines # <<>> => ~Blank(sql_lines[1])
        /\ Cardinality({i \in 1..Len(sql_lines) : Blank(sql_lines[i])}) =
              Cardinality({i \in 1..(pos - 1) :
                  Blank(lines[i]) /\ \E j \in 1..(i - 1) : Qualifies(lines[j])})
        /\ (pc = "done" /\ returned # <<>>) => ~Blank(split(returned)[1])

C10_Step == (run' = run /\ in_sql_block) => in_sql_block'

\* C10: the state part in every state, the step part on every step
C10_BlockMonotone == [](C10_State) /\ [][C10_Step]_vars

C10_Witness ==
    /\ pc = "done"
    /\ Len(lines) = 4
    /\ Qualifies(lines[1])
    /\ ~Qualifies(lines[2]) /\ ~Blank(lines[2])
    /\ Blank(lines[3])
    /\ sql_lines = <<lines[1], lines[3]>>

---------------------------------------------------------------------------
(* Statements about the extractors.                                        *)

\* the columns the specification gives a table whose DESCRIBE rows are rows
SpecHiveColumns(rows) ==
    LET wellFormed == Pick(rows, {k \in 1..Len(rows) : Len(rows[k]) >= 2})
    IN  [j \in 1..Len(wellFormed) |->
            [name |-> wellFormed[j][1],
             type |-> wellFormed[j][2],
             nullable |-> TRUE,
             comment |-> IF Len(wellFormed[j]) >= 3 THEN wellFormed[j][3] ELSE None]]

HasPartitions(t) == "partitions" \in DOMAIN t

Names(cols) == [k \in 1..Len(cols) |-> cols[k].name]

(* C6: in warehouse extraction a failure of SHOW PARTITIONS for one table  *)
(* is caught locally: the table is in the schema with its columns and      *)
(* without a partitions field, the later tables are still extracted, and a *)
(* table has a partitions field exactly when its listing succeeded with at *)
(* least one row (then the field holds the rows' first fields, in order).  *)
C6_PartitionFailureIsLocal ==
    schema.db_type = "hive" =>
        /\ Len(listed) = Len(schema.tables)
        /\ epc = "done" => Len(schema.tables) = Len(tables)
        /\ \A i \in 1..Len(listed) :
              LET t == schema.tables[i]
                  r == listed[i]
              IN  /\ i <= Len(schema.tables)
                  /\ t.name = tables[i]
                  /\ t.columns = SpecHiveColumns(described[i])
                  /\ HasPartitions(t) <=> (r.ok /\ r.rows # <<>>)
                  /\ HasPartitions(t) =>
                        t.partitions = [k \in 1..Len(r.rows) |-> r.rows[k][1]]

C6_Witness ==
    /\ epc = "done"
    /\ schema.db_type = "hive"
    /\ tables = <<"t1", "t2">>
    /\ ~listed[1].ok
    /\ described[1] # <<>>
    /\ ~HasPartitions(schema.tables[1])
    /\ schema.tables[1].columns # <<>>
    /\ listed[2].ok
    /\ HasPartitions(schema.tables[2])
    /\ schema.tables[2].partitions = <<"dt=1", "dt=2">>

(* C7: in warehouse extraction, for every sequence of DESCRIBE rows of 0   *)
(* to 3 fields, the table's columns are exactly the rows with at least 2   *)
(* fields, in input order, each mapped to name = field 1, type = field 2,  *)
(* nullable = true, comment = field 3 if present; shorter rows are skipped *)
(* without raising and without touching the rows around them.              *)
C7_HiveColumnsFromRows ==
    schema.db_type = "hive" =>
        /\ Len(described) = Len(schema.tables)
        /\ \A i \in 1..Len(described) :
              /\ schema.tables[i].columns = SpecHiveColumns(described[i])
              /\ \A k \in 1..Len(schema.tables[i].columns) :
                    schema.tables[i].columns[k].nullable

C7_Witness ==
    /\ schema.db_type = "hive"
    /\ epc = "done"
    /\ \E i \in 1..Len(described) :
          /\ described[i] =
                << <<"id", "int">>, <<"x">>, <<"name", "string", "a name">> >>
          /\ Names(schema.tables[i].columns) = <<"id", "name">>
          /\ schema.tables[i].columns[1].comment = None
          /\ schema.tables[i].columns[2].comment = "a name"

(* C8: for both backends the schema's tables are the discovered tables,    *)
(* one entry each, in discovery order, and each table's columns are in the *)
(* order the backend reported them.                                        *)
C8_DiscoveryOrder ==
    epc \in {"pg_loop", "hive_loop", "done"} =>
        /\ Len(schema.tables) = tpos - 1
        /\ epc = "done" => Len(schema.tables) = Len(tables)
        /\ \A i \in 1..Len(schema.tables) :
              LET t == schema.tables[i]
              IN  IF schema.db_type = "postgresql"
                  THEN /\ <<t.name, t.schema>> = tables[i]
                       /\ Names(t.columns) =
                             [k \in 1..Len(described[i]) |-> described[i][k][1]]
                  ELSE /\ t.name = tables[i]
                       /\ Names(t.columns) =
                             LET named == Pick(described[i],
                                     {k \in 1..Len(described[i]) :
                                         Len(described[i][k]) >= 2})
                             IN  [k \in 1..Len(named) |-> named[k][1]]

C8_Witness ==
    /\ epc = "done"
    /\ schema.db_type = "postgresql"
    /\ tables = << <<"t2", "public">>, <<"t1", "public">>, <<"t1", "app">> >>
    /\ Names(schema.tables[1].columns) = <<"name", "id">>
    /\ Names(schema.tables[3].columns) = <<"id", "name">>

(* C9: in every schema produced, no column name appears twice in a table's *)
(* columns, whatever column rows the backend returns.                      *)
C9_NoDuplicateColumns ==
    \A i \in 1..Len(schema.tables) :
        LET cols == schema.tables[i].columns
        IN  \A a, b \in 1..Len(cols) : a # b => cols[a].name # cols[b].name

=============================================================================
